---- MODULE Spec2Model ----
(***************************************************************************)
(* A model of bleached.py: the whitelist-based HTML checker.  A string is  *)
(* a sequence of one-character strings; a name (tag, attribute, entity) is *)
(* such a sequence too.  One action is one iteration of one of the         *)
(* scanner's loops, or one straight-line block between two reads.          *)
(***************************************************************************)
EXTENDS Integers, Sequences, FiniteSets, TLC

(***************************************************************************)
(* Bounds of the model.                                                    *)
(***************************************************************************)
\* Longest source built freely over Alphabet.
MaxLen == 3
\* Longest free continuation appended to one of the Prefixes.
MaxTail == 2

(***************************************************************************)
(* Module constants of bleached.py.                                        *)
(***************************************************************************)
\* Vertical tab has no escape in a TLA+ string: this token stands for it.
VT == "\\v"

WHITESPACE == {" ", "\t", "\n", "\r", VT, "\f"}

VOID_ELEMENTS ==
    { <<"a","r","e","a">>, <<"b","a","s","e">>, <<"b","r">>, <<"c","o","l">>,
      <<"e","m","b","e","d">>, <<"h","r">>, <<"i","m","g">>,
      <<"i","n","p","u","t">>, <<"l","i","n","k">>, <<"m","e","t","a">>,
      <<"s","o","u","r","c","e">>, <<"t","r","a","c","k">>, <<"w","b","r">> }

LowerLetters ==
    << "a","b","c","d","e","f","g","h","i","j","k","l","m",
       "n","o","p","q","r","s","t","u","v","w","x","y","z" >>

UpperLetters ==
    << "A","B","C","D","E","F","G","H","I","J","K","L","M",
       "N","O","P","Q","R","S","T","U","V","W","X","Y","Z" >>

Digits == {"0","1","2","3","4","5","6","7","8","9"}

Range(s) == { s[i] : i \in DOMAIN s }

ELEMENT_CHARS == Range(LowerLetters) \cup Range(UpperLetters) \cup Digits \cup {"-"}

ATTRIBUTE_CHARS == ELEMENT_CHARS

\* The keys of HTML_ENTITIES, and the table itself.
EntityNames ==
    { <<"n","b","s","p">>, <<"q","u","o","t">>, <<"a","m","p">>,
      <<"a","p","o","s">>, <<"l","t">>, <<"g","t">> }

HTML_ENTITIES ==
    [ n \in EntityNames |->
        CASE n = <<"n","b","s","p">> -> " "
          [] n = <<"q","u","o","t">> -> "\""
          [] n = <<"a","m","p">>     -> "&"
          [] n = <<"a","p","o","s">> -> "'"
          [] n = <<"l","t">>         -> "<"
          [] n = <<"g","t">>         -> ">" ]

\* The nesting cap of check().
MaxStackDepth == 1000

\* The cap on the characters of an entity before its ';'.
MaxEntityLen == 10

(***************************************************************************)
(* str.lower() and ''.join(...).lower(), on the ASCII characters.          *)
(***************************************************************************)
LowerChar(c) ==
    IF \E i \in DOMAIN UpperLetters : UpperLetters[i] = c
    THEN LowerLetters[CHOOSE i \in DOMAIN UpperLetters : UpperLetters[i] = c]
    ELSE c

Lower(s) == [ i \in 1..Len(s) |-> LowerChar(s[i]) ]

\* re.match('^#[0-9]+$', entity): '$' also matches before one final newline.
MatchesNumericalEntity(e) ==
    LET n == IF Len(e) >= 3 /\ e[Len(e)] = "\n" THEN Len(e) - 1 ELSE Len(e)
    IN  /\ n >= 2
        /\ e[1] = "#"
        /\ \A i \in 2..n : e[i] \in Digits

Last(s) == s[Len(s)]

Front(s) == SubSeq(s, 1, Len(s) - 1)

(***************************************************************************)
(* The inputs of one call: a source and a configuration.                   *)
(***************************************************************************)
Alphabet ==
    { "<", ">", "/", "&", ";", "#", "1", "p", "P", "a", "b", "r", "=", "\"", "\n" }

Strings(n) == UNION { [1..k -> Alphabet] : k \in 0..n }

\* Contexts the free continuations start from.
Prefixes ==
    { <<"<","p",">">>,
      <<"<","p",">","<","a",">">>,
      <<"<","p",">","<","/">>,
      <<"<","p",">","<","a",">","<","/">>,
      <<"<","b","r">>,
      <<"<","p",">","<","b","r">>,
      <<"<","p">>,
      <<"<","p",">","\n","<","a">>,
      <<"&","#">>,
      <<"&","a","m">>,
      <<"&","A","M">>,
      <<"&","a","b","c","d","e","f","g","h","i">>,
      <<"&","a","b","c","d","e","f","g","h","i","j">>,
      <<"&","#","1","2","3","4","5","6","7","8">>,
      <<"<","a"," ","h","r","e","f">>,
      <<"<","a"," ","h","r","e","f","=">>,
      <<"<","a"," ","h","r","e","f","=","\"">>,
      <<"<","a"," ","h","r","e","f","=","'">>,
      <<"<","a"," ","h","r","e","f","=","\"","&","#">>,
      <<"<","a"," ","h","r","e","f","=","\"","x","\""," ","t","i","t","l","e">>,
      <<"<","a"," ","H","R","E","F"," ","="," ","\"">>,
      <<"<","P",">","<","a",">","<","/","P",">","<","/">>,
      <<"<","p",">","&","l","t",";","<","/">>,
      <<"<","i","m","g"," ","s","r","c","=","\"","x","\"">>,
      <<"<","p"," ">>,
      <<"<","/"," ","p">>,
      <<"<","p",">","<","b","r","/",">","<","/">>,
      <<"<","p",">","<","/","b","r">>,
      <<"<","a"," ","h","r","e","f","=","\"","'">> }

\* The sources of tests.py.
TestSources ==
    { <<"<","p",">","H","e","l","l","o"," ","<","b",">","w","o","r","l","d","<","/","b",">","<","/","p",">">>,
      <<"<","p"," ","s","t","y","l","e","=","\"","c","o","l","o","r",":"," ","r","e","d",";","\"",">","H","e","l","l","o","<","/","p",">">>,
      <<"<","p",">","<","a"," ","h","r","e","f","=","\"","s","o","m","e","w","h","e","r","e","\""," ","t","i","t","l","e","=","\"","C","l","i","c","k","!","\"",">","H","e","l","l","o","<","/","a",">","<","/","p",">">>,
      <<"<","p",">","\n","<","a","/",">","\n","<","/","p",">">>,
      <<"<","p",">","<","b","r","/",">","<","/","p",">">>,
      <<"<","p",">","<","b","r",">","<","/","p",">">>,
      <<"<","p",">">>,
      <<"<","/","p",">">>,
      <<"<","p",">","<","a",">","<","/","p",">">>,
      <<"<","a"," ","h","r","e","f",">","h","e","l","l","o","<","/","a",">">> }

Sources ==
    Strings(MaxLen)
      \cup { p \o t : p \in Prefixes, t \in Strings(MaxTail) }
      \cup TestSources

\* The configuration of tests.py (TestBleached.check).
TestConfig ==
    [ tags |-> { <<"p">>, <<"b","r">>, <<"c","o","d","e">>, <<"a">>,
                 <<"i","m","g">>, <<"b">>, <<"u">> },
      attributes |->
          ( <<"a">> :> { <<"h","r","e","f">>, <<"t","i","t","l","e">> } )
       @@ ( <<"i","m","g">> :> { <<"s","r","c">> } ) ]

\* A second configuration: an empty tag name, names written in upper case,
\* empty and one-letter attribute names, an entry for a tag that is not permitted.
OddConfig ==
    [ tags |-> { <<>>, <<"p">>, <<"B">>, <<"a">>, <<"b","r">>, <<"i","m","g">> },
      attributes |->
          ( <<"a">> :> { <<"b">>, <<"P">>, <<"h","r","e","f">> } )
       @@ ( <<"p">> :> { <<>> } )
       @@ ( <<"r">> :> { <<"a">> } ) ]

Configs == { TestConfig, OddConfig }

(***************************************************************************)
(* The state: the Checker's fields, the locals of its methods that live    *)
(* across reads, where control is, and how the call ended.                 *)
(***************************************************************************)
VARIABLES
    source,           \* Checker.source
    tags,             \* Checker.tags
    attributes,       \* Checker.attributes
    position,         \* Checker.position
    line,             \* Checker.line
    line_position,    \* Checker.line_position
    element_stack,    \* Checker.element_stack
    pc,               \* the point of the code the scanner is at
    closing,          \* read_tag: closing
    tag_name,         \* read_tag: tag_name (the list, then the lowercased string)
    attribute_name,   \* read_attributes: attribute_name
    quote,            \* read_attributes: quote
    entity,           \* read_entity: entity
    caller,           \* the loop read_entity returns to
    what,             \* check: what, the last result of read_tag
    entity_value,     \* the last value read_entity returned
    exception,        \* the exception that left check(): its class, "None" if none
    error,            \* the UnsafeInput raised: message, index, line, line_position
    result,           \* what is_html_bleached gave its caller
    tags_read,        \* every lowercased tag name read_tag tested
    attributes_read   \* every <<tag, lowercased attribute name>> read_attributes tested

vars ==
    << source, tags, attributes, position, line, line_position, element_stack,
       pc, closing, tag_name, attribute_name, quote, entity, caller, what,
       entity_value, exception, error, result, tags_read, attributes_read >>

NoError == [ message |-> <<>>, index |-> -1, line |-> -1, line_position |-> -1 ]

\* Checker.__init__: the fields that do not come from the arguments, and
\* the locals before anything is read.
Constructed ==
    /\ position = 0
    /\ line = 1
    /\ line_position = 1
    /\ element_stack = <<>>
    /\ pc = "main"
    /\ closing = FALSE
    /\ tag_name = <<>>
    /\ attribute_name = <<>>
    /\ quote = ""
    /\ entity = <<>>
    /\ caller = "main"
    /\ what = "none"
    /\ entity_value = ""
    /\ exception = "None"
    /\ error = NoError
    /\ result = "pending"
    /\ tags_read = {}
    /\ attributes_read = {}

\* Checker.__init__, called by check_html, called by is_html_bleached.
Init ==
    /\ source \in Sources
    /\ \E config \in Configs :
         /\ tags = config.tags
         /\ attributes = config.attributes
    /\ Constructed

(***************************************************************************)
(* The primitive operations on the cursor.                                 *)
(***************************************************************************)
\* peek_char raises EndOfInput here.
AtEnd == position >= Len(source)

\* peek_char, when it does not raise.
peek_char == source[position + 1]

\* A consume_char that counts the line but forgets to restart the column.
consume_char_column_kept ==
    /\ position' = position + 1
    /\ line_position' = line_position + 1
    /\ line' = IF peek_char = "\n" THEN line + 1 ELSE line

\* consume_char: the cursor moves over the character peek_char gave.
consume_char ==
    /\ position' = position + 1
    /\ IF peek_char = "\n"
       THEN /\ line_position' = 1
            /\ line' = line + 1
       ELSE /\ line_position' = line_position + 1
            /\ line' = line

\* No character is read.
CursorUnchanged == UNCHANGED << position, line, line_position >>

\* fail: UnsafeInput with the cursor as it is when fail is called (the
\* actions call it after their reads, on the new cursor).
fail(message) ==
    /\ error' = [ message |-> message, index |-> position',
                  line |-> line', line_position |-> line_position' ]
    /\ exception' = "UnsafeInput"
    /\ pc' = "raised"

\* A lookup in one whitelist for all tags.
AttributesOfAnyTag(name) == UNION { attributes[t] : t \in DOMAIN attributes }

\* attributes.get(tag_name, ())
AttributesOf(name) == IF name \in DOMAIN attributes THEN attributes[name] ELSE {}

(***************************************************************************)
(* Frames: what an action leaves alone.                                    *)
(***************************************************************************)
Inputs == << source, tags, attributes >>

TagLocals == << closing, tag_name, what >>

AttributeLocals == << attribute_name, quote >>

EntityLocals == << entity, caller, entity_value >>

Read == << tags_read, attributes_read >>

\* No exception: control goes on at p.
Continue(p) ==
    /\ pc' = p
    /\ UNCHANGED << exception, error >>

\* The places of the code, inside read_tag, read_attributes and read_entity,
\* where the next thing done is a peek_char or a consume_char.
InsidePcs ==
    { "read_tag", "read_tag_closing", "tag_name", "read_attributes",
      "attribute_name", "attribute_equals", "attribute_quote",
      "attribute_value", "tag_end", "tag_slash", "read_entity" }

\* Those of them that start with skip_whitespace().
WhitespacePcs ==
    { "read_tag", "read_tag_closing", "read_attributes", "attribute_equals",
      "attribute_quote", "tag_end", "tag_slash" }

(***************************************************************************)
(* check(): the main loop.                                                 *)
(***************************************************************************)
\* Naming the outermost open element instead of the innermost.
MissingElementOutermost == element_stack[1]

\* The element "Missing closing tag" names.
MissingElement == Last(element_stack)

\* peek_char raises EndOfInput at the top of the loop: break, then the
\* test of the element stack after the loop.
MainEndOfInput ==
    /\ pc = "main"
    /\ AtEnd
    /\ CursorUnchanged
    /\ IF element_stack # <<>>
       THEN fail(<< "Missing closing tag for element %r", MissingElement >>)
       ELSE Continue("returned")
    /\ UNCHANGED << Inputs, element_stack, TagLocals, AttributeLocals,
                    EntityLocals, result, Read >>

\* c == '>'
MainUnexpectedCloseConsumed ==
    /\ pc = "main"
    /\ ~AtEnd
    /\ peek_char = ">"
    /\ consume_char
    /\ fail(<< "Unexpected '>' character" >>)
    /\ UNCHANGED << Inputs, element_stack, TagLocals, AttributeLocals,
                    EntityLocals, result, Read >>

\* c == '>': the '>' is peeked and the check fails at it.

MainUnexpectedClose ==
    /\ pc = "main"
    /\ ~AtEnd
    /\ peek_char = ">"
    /\ CursorUnchanged
    /\ fail(<< "Unexpected '>' character" >>)
    /\ UNCHANGED << Inputs, element_stack, TagLocals, AttributeLocals,
                    EntityLocals, result, Read >>

\* c == '<': read_tag() is entered and consumes the '<'.
MainReadTag ==
    /\ pc = "main"
    /\ ~AtEnd
    /\ peek_char = "<"
    /\ consume_char
    /\ Continue("read_tag")
    /\ UNCHANGED << Inputs, element_stack, TagLocals, AttributeLocals,
                    EntityLocals, result, Read >>

\* read_entity() is entered, from the loop `from`, and consumes the '&'.
EnterReadEntityUnconsumed(from) ==
    /\ CursorUnchanged
    /\ entity' = <<>>
    /\ caller' = from
    /\ Continue("read_entity")
    /\ UNCHANGED << Inputs, element_stack, TagLocals, AttributeLocals,
                    entity_value, result, Read >>

\* read_entity() is entered: the '&' is consumed and the entity is empty.

EnterReadEntity(from) ==
    /\ consume_char
    /\ entity' = <<>>
    /\ caller' = from
    /\ Continue("read_entity")
    /\ UNCHANGED << Inputs, element_stack, TagLocals, AttributeLocals,
                    entity_value, result, Read >>

\* c == '&'
MainReadEntity ==
    /\ pc = "main"
    /\ ~AtEnd
    /\ peek_char = "&"
    /\ EnterReadEntity("main")

\* Any other character is consumed.
MainConsume ==
    /\ pc = "main"
    /\ ~AtEnd
    /\ peek_char \notin { ">", "<", "&" }
    /\ consume_char
    /\ Continue("main")
    /\ UNCHANGED << Inputs, element_stack, TagLocals, AttributeLocals,
                    EntityLocals, result, Read >>

\* A check() without the handler: EndOfInput leaves it as it is.
EndOfInputEscapes ==
    /\ CursorUnchanged
    /\ UNCHANGED error
    /\ exception' = "EndOfInput"
    /\ pc' = "raised"

\* The handler of EndOfInput around the loop: a peek_char or consume_char
\* inside read_tag, read_attributes or read_entity found no character.
UnexpectedEndOfInput ==
    /\ CursorUnchanged
    /\ fail(<< "Unexpected end of input" >>)

EndOfInputInside ==
    /\ pc \in InsidePcs
    /\ AtEnd
    /\ UnexpectedEndOfInput
    /\ UNCHANGED << Inputs, element_stack, TagLocals, AttributeLocals,
                    EntityLocals, result, Read >>

\* skip_whitespace(): one iteration that consumes a whitespace character.
SkipWhitespace ==
    /\ pc \in WhitespacePcs
    /\ ~AtEnd
    /\ peek_char \in WHITESPACE
    /\ consume_char
    /\ Continue(pc)
    /\ UNCHANGED << Inputs, element_stack, TagLocals, AttributeLocals,
                    EntityLocals, result, Read >>

(***************************************************************************)
(* check(): what it does with the result of read_tag().                    *)
(***************************************************************************)
\* An 'open' that pushes void elements too.
HandleOpenPushesVoid ==
    /\ element_stack' = Append(element_stack, tag_name)
    /\ IF Len(element_stack') >= MaxStackDepth
       THEN fail(<< "Element stack too deep" >>)
       ELSE Continue("main")

\* An 'open' that lets the stack reach the cap and fails one element later.
HandleOpenCapOffByOne ==
    IF tag_name \notin VOID_ELEMENTS
    THEN /\ element_stack' = Append(element_stack, tag_name)
         /\ IF Len(element_stack') > MaxStackDepth
            THEN fail(<< "Element stack too deep" >>)
            ELSE Continue("main")
    ELSE /\ UNCHANGED element_stack
         /\ Continue("main")

\* what == 'open'
HandleOpen ==
    IF tag_name \notin VOID_ELEMENTS
    THEN /\ element_stack' = Append(element_stack, tag_name)
         /\ IF Len(element_stack') >= MaxStackDepth
            THEN fail(<< "Element stack too deep" >>)
            ELSE Continue("main")
    ELSE /\ UNCHANGED element_stack
         /\ Continue("main")

\* Naming the element on top of the stack, when there is one.
WrongElementOnTop == IF element_stack # <<>> THEN Last(element_stack) ELSE tag_name

\* A 'close' that pops whatever is on top.
HandleClosePopsAny ==
    IF element_stack # <<>>
    THEN /\ element_stack' = Front(element_stack)
         /\ Continue("main")
    ELSE /\ UNCHANGED element_stack
         /\ fail(<< "Closing tag for wrong element %r", tag_name >>)

\* The element "Closing tag for wrong element" names.
WrongElement == tag_name

\* A 'close' that lets the closing tag of a void element pass.
HandleCloseVoidIgnored ==
    IF tag_name \in VOID_ELEMENTS
    THEN /\ UNCHANGED element_stack
         /\ Continue("main")
    ELSE IF element_stack # <<>> /\ tag_name = Last(element_stack)
         THEN /\ element_stack' = Front(element_stack)
              /\ Continue("main")
         ELSE /\ UNCHANGED element_stack
              /\ fail(<< "Closing tag for wrong element %r", tag_name >>)

\* what == 'close'
HandleClose ==
    IF element_stack # <<>> /\ tag_name = Last(element_stack)
    THEN /\ element_stack' = Front(element_stack)
         /\ Continue("main")
    ELSE /\ UNCHANGED element_stack
         /\ fail(<< "Closing tag for wrong element %r", WrongElement >>)

\* A 'selfclose' that takes any element.
HandleSelfCloseAnyElement ==
    /\ UNCHANGED element_stack
    /\ Continue("main")

\* what == 'selfclose'
HandleSelfClose ==
    /\ UNCHANGED element_stack
    /\ IF tag_name \notin VOID_ELEMENTS
       THEN fail(<< "Self-closing tag for non-void element %r", tag_name >>)
       ELSE Continue("main")

\* read_tag returned (w, tag_name).
TagResult(w) ==
    /\ what' = w
    /\ CASE w = "open"      -> HandleOpen
         [] w = "close"     -> HandleClose
         [] w = "selfclose" -> HandleSelfClose

(***************************************************************************)
(* read_tag()                                                              *)
(***************************************************************************)
\* After '<' and whitespace: a '/' makes it a closing tag and is consumed;
\* anything else starts the name.
ReadTagSlash ==
    /\ pc = "read_tag"
    /\ ~AtEnd
    /\ peek_char \notin WHITESPACE
    /\ IF peek_char = "/"
       THEN /\ closing' = TRUE
            /\ consume_char
            /\ UNCHANGED tag_name
            /\ Continue("read_tag_closing")
       ELSE /\ closing' = FALSE
            /\ CursorUnchanged
            /\ tag_name' = <<>>
            /\ Continue("tag_name")
    /\ UNCHANGED << Inputs, element_stack, what, AttributeLocals, EntityLocals,
                    result, Read >>

\* After '/' and whitespace: the name starts.
ReadTagClosingName ==
    /\ pc = "read_tag_closing"
    /\ ~AtEnd
    /\ peek_char \notin WHITESPACE
    /\ CursorUnchanged
    /\ tag_name' = <<>>
    /\ Continue("tag_name")
    /\ UNCHANGED << Inputs, element_stack, closing, what, AttributeLocals,
                    EntityLocals, result, Read >>

TagNameEnds == WHITESPACE \cup { "/", ">" }

\* One iteration of the name loop that consumes a name character.
TagNameChar ==
    /\ pc = "tag_name"
    /\ ~AtEnd
    /\ peek_char \notin TagNameEnds
    /\ peek_char \in ELEMENT_CHARS
    /\ tag_name' = Append(tag_name, peek_char)
    /\ consume_char
    /\ Continue("tag_name")
    /\ UNCHANGED << Inputs, element_stack, closing, what, AttributeLocals,
                    EntityLocals, result, Read >>

\* One iteration of the name loop on any other character.
TagNameBadChar ==
    /\ pc = "tag_name"
    /\ ~AtEnd
    /\ peek_char \notin TagNameEnds
    /\ peek_char \notin ELEMENT_CHARS
    /\ CursorUnchanged
    /\ fail(<< "Unexpected character in tag name" >>)
    /\ UNCHANGED << Inputs, element_stack, TagLocals, AttributeLocals,
                    EntityLocals, result, Read >>

\* A whitelist test made for opening tags only.
TagForbiddenOpeningOnly(name) == ~closing /\ name \notin tags

\* tag_name not in self.tags
TagForbidden(name) == name \notin tags

\* The name loop breaks: the name is lowercased and looked up in the
\* whitelist; an opening tag goes on to read_attributes().
TagNameEnd ==
    /\ pc = "tag_name"
    /\ ~AtEnd
    /\ peek_char \in TagNameEnds
    /\ CursorUnchanged
    /\ tag_name' = Lower(tag_name)
    /\ tags_read' = tags_read \cup { tag_name' }
    /\ IF TagForbidden(tag_name')
       THEN fail(<< "Found forbidden opening tag %r", tag_name' >>)
       ELSE IF ~closing
            THEN Continue("read_attributes")
            ELSE Continue("tag_end")
    /\ UNCHANGED << Inputs, element_stack, closing, what, AttributeLocals,
                    EntityLocals, result, attributes_read >>

\* After the name (and the attributes) and whitespace: the character that
\* ends the tag is consumed.
TagEnd ==
    /\ pc = "tag_end"
    /\ ~AtEnd
    /\ peek_char \notin WHITESPACE
    /\ consume_char
    /\ CASE peek_char = ">" ->
                TagResult(IF closing THEN "close" ELSE "open")
         [] peek_char = "/" ->
                /\ UNCHANGED << element_stack, what >>
                /\ IF closing
                   THEN fail(<< "Saw tag with slashes on both sides" >>)
                   ELSE Continue("tag_slash")
         [] OTHER ->
                /\ UNCHANGED << element_stack, what >>
                /\ fail(<< "Unexpected character in tag" >>)
    /\ UNCHANGED << Inputs, closing, tag_name, AttributeLocals, EntityLocals,
                    result, Read >>

\* After the ending slash and whitespace: the next character must be '>'.
TagSelfClose ==
    /\ pc = "tag_slash"
    /\ ~AtEnd
    /\ peek_char \notin WHITESPACE
    /\ consume_char
    /\ IF peek_char # ">"
       THEN /\ UNCHANGED << element_stack, what >>
            /\ fail(<< "Missing tag close after ending slash" >>)
       ELSE TagResult("selfclose")
    /\ UNCHANGED << Inputs, closing, tag_name, AttributeLocals, EntityLocals,
                    result, Read >>

(***************************************************************************)
(* read_attributes(tag_name)                                               *)
(***************************************************************************)
\* The top of the attribute loop, after whitespace: '>' or '/' ends the
\* attributes; anything else starts an attribute name.
AttributesNext ==
    /\ pc = "read_attributes"
    /\ ~AtEnd
    /\ peek_char \notin WHITESPACE
    /\ CursorUnchanged
    /\ IF peek_char \in { ">", "/" }
       THEN /\ UNCHANGED attribute_name
            /\ Continue("tag_end")
       ELSE /\ attribute_name' = <<>>
            /\ Continue("attribute_name")
    /\ UNCHANGED << Inputs, element_stack, TagLocals, quote, EntityLocals,
                    result, Read >>

AttributeNameEnds == WHITESPACE \cup { "/", ">", "=" }

\* One iteration of the name loop that consumes a name character.
AttributeNameChar ==
    /\ pc = "attribute_name"
    /\ ~AtEnd
    /\ peek_char \notin AttributeNameEnds
    /\ peek_char \in ATTRIBUTE_CHARS
    /\ attribute_name' = Append(attribute_name, peek_char)
    /\ consume_char
    /\ Continue("attribute_name")
    /\ UNCHANGED << Inputs, element_stack, TagLocals, quote, EntityLocals,
                    result, Read >>

\* One iteration of the name loop on any other character.
AttributeNameBadChar ==
    /\ pc = "attribute_name"
    /\ ~AtEnd
    /\ peek_char \notin AttributeNameEnds
    /\ peek_char \notin ATTRIBUTE_CHARS
    /\ CursorUnchanged
    /\ fail(<< "Unexpected character in attribute" >>)
    /\ UNCHANGED << Inputs, element_stack, TagLocals, AttributeLocals,
                    EntityLocals, result, Read >>

\* A lookup that restricts only the tags the attribute map lists.
AttributeForbiddenListedTagsOnly(name) ==
    /\ tag_name \in DOMAIN attributes
    /\ name \notin attributes[tag_name]

\* attribute_name not in self.attributes.get(tag_name, ())
AttributeForbidden(name) == name \notin AttributesOf(tag_name)

\* The name loop breaks: the name is lowercased and looked up in the
\* whitelist of the tag.
AttributeNameEnd ==
    /\ pc = "attribute_name"
    /\ ~AtEnd
    /\ peek_char \in AttributeNameEnds
    /\ CursorUnchanged
    /\ attribute_name' = Lower(attribute_name)
    /\ attributes_read' = attributes_read \cup { << tag_name, attribute_name' >> }
    /\ IF AttributeForbidden(attribute_name')
       THEN fail(<< "Forbidden attribute %r in tag %r", attribute_name', tag_name >>)
       ELSE Continue("attribute_equals")
    /\ UNCHANGED << Inputs, element_stack, TagLocals, quote, EntityLocals,
                    result, tags_read >>

\* After the name and whitespace: the character consumed must be '='.
AttributeEquals ==
    /\ pc = "attribute_equals"
    /\ ~AtEnd
    /\ peek_char \notin WHITESPACE
    /\ consume_char
    /\ IF peek_char # "="
       THEN fail(<< "Unexpected character %r in attribute", peek_char >>)
       ELSE Continue("attribute_quote")
    /\ UNCHANGED << Inputs, element_stack, TagLocals, AttributeLocals,
                    EntityLocals, result, Read >>

\* A value that may start with any character, taken as its quote.
AttributeQuoteUnchecked ==
    /\ pc = "attribute_quote"
    /\ ~AtEnd
    /\ peek_char \notin WHITESPACE
    /\ consume_char
    /\ quote' = peek_char
    /\ Continue("attribute_value")
    /\ UNCHANGED << Inputs, element_stack, TagLocals, attribute_name,
                    EntityLocals, result, Read >>

\* After '=' and whitespace: the character consumed must be a quote.
AttributeQuote ==
    /\ pc = "attribute_quote"
    /\ ~AtEnd
    /\ peek_char \notin WHITESPACE
    /\ consume_char
    /\ quote' = peek_char
    /\ IF quote' # "\"" /\ quote' # "'"
       THEN fail(<< "Missing quote for attribute value" >>)
       ELSE Continue("attribute_value")
    /\ UNCHANGED << Inputs, element_stack, TagLocals, attribute_name,
                    EntityLocals, result, Read >>

\* A value loop that either quote character ends.
AttributeValueEndAnyQuote ==
    /\ pc = "attribute_value"
    /\ ~AtEnd
    /\ peek_char \in { "\"", "'" }
    /\ consume_char
    /\ Continue("read_attributes")
    /\ UNCHANGED << Inputs, element_stack, TagLocals, AttributeLocals,
                    EntityLocals, result, Read >>

\* The value loop: the quote that opened the value ends it and is consumed.
AttributeValueEnd ==
    /\ pc = "attribute_value"
    /\ ~AtEnd
    /\ peek_char = quote
    /\ consume_char
    /\ Continue("read_attributes")
    /\ UNCHANGED << Inputs, element_stack, TagLocals, AttributeLocals,
                    EntityLocals, result, Read >>

\* The value loop: c in '<>'
AttributeValueForbidden ==
    /\ pc = "attribute_value"
    /\ ~AtEnd
    /\ peek_char # quote
    /\ peek_char \in { "<", ">" }
    /\ CursorUnchanged
    /\ fail(<< "Forbidden character in attribute value" >>)
    /\ UNCHANGED << Inputs, element_stack, TagLocals, AttributeLocals,
                    EntityLocals, result, Read >>

\* The value loop: c == '&'
AttributeValueEntity ==
    /\ pc = "attribute_value"
    /\ ~AtEnd
    /\ peek_char # quote
    /\ peek_char = "&"
    /\ EnterReadEntity("attribute_value")

\* The value loop: any other character is consumed.
AttributeValueChar ==
    /\ pc = "attribute_value"
    /\ ~AtEnd
    /\ peek_char # quote
    /\ peek_char \notin { "<", ">", "&" }
    /\ consume_char
    /\ Continue("attribute_value")
    /\ UNCHANGED << Inputs, element_stack, TagLocals, AttributeLocals,
                    EntityLocals, result, Read >>

(***************************************************************************)
(* read_entity()                                                           *)
(***************************************************************************)
\* return HTML_ENTITIES[entity]: the value, or KeyError for a missing key.
EntityReturn(e) ==
    IF e \in DOMAIN HTML_ENTITIES
    THEN /\ entity_value' = HTML_ENTITIES[e]
         /\ Continue(caller)
    ELSE /\ UNCHANGED << entity_value, error >>
         /\ exception' = "KeyError"
         /\ pc' = "raised"

\* After the loop: the entity is lowercased, checked and looked up.
EntityEnd ==
    LET e == Lower(entity)
    IN  /\ entity' = e
        /\ IF e # <<>> /\ e[1] = "#"
           THEN IF ~MatchesNumericalEntity(e)
                THEN /\ UNCHANGED entity_value
                     /\ fail(<< "Invalid numerical entity" >>)
                ELSE EntityReturn(e)
           ELSE IF e \notin DOMAIN HTML_ENTITIES
                THEN /\ UNCHANGED entity_value
                     /\ fail(<< "Unknown HTML entity %r", e >>)
                ELSE EntityReturn(e)

\* An entity loop whose length check lets one more character in.
EntityCharCapOffByOne ==
    /\ pc = "read_entity"
    /\ ~AtEnd
    /\ consume_char
    /\ IF peek_char = ";"
       THEN EntityEnd
       ELSE IF Len(entity) > MaxEntityLen
            THEN /\ UNCHANGED << entity, entity_value >>
                 /\ fail(<< "Entity too long" >>)
            ELSE /\ entity' = Append(entity, peek_char)
                 /\ UNCHANGED entity_value
                 /\ Continue("read_entity")
    /\ UNCHANGED << Inputs, element_stack, TagLocals, AttributeLocals, caller,
                    result, Read >>

\* One iteration of the loop: a character is consumed; ';' ends the
\* entity, and a character after MaxEntityLen of them is one too many.
EntityChar ==
    /\ pc = "read_entity"
    /\ ~AtEnd
    /\ consume_char
    /\ IF peek_char = ";"
       THEN EntityEnd
       ELSE IF Len(entity) >= MaxEntityLen
            THEN /\ UNCHANGED << entity, entity_value >>
                 /\ fail(<< "Entity too long" >>)
            ELSE /\ entity' = Append(entity, peek_char)
                 /\ UNCHANGED entity_value
                 /\ Continue("read_entity")
    /\ UNCHANGED << Inputs, element_stack, TagLocals, AttributeLocals, caller,
                    result, Read >>

(***************************************************************************)
(* check_html() and is_html_bleached()                                     *)
(***************************************************************************)
\* try: check_html(...); return True / except UnsafeInput: return False.
\* Any other exception goes on to the caller.
BleachedResult ==
    CASE exception = "None"        -> "True"
      [] exception = "UnsafeInput" -> "False"
      [] OTHER                     -> "raised"

\* check() returned or raised: is_html_bleached ends.
IsHtmlBleached ==
    /\ pc \in { "returned", "raised" }
    /\ result' = BleachedResult
    /\ pc' = "exit"
    /\ UNCHANGED << Inputs, position, line, line_position, element_stack,
                    TagLocals, AttributeLocals, EntityLocals, exception, error,
                    Read >>

Next ==
    \/ MainEndOfInput
    \/ MainUnexpectedClose
    \/ MainReadTag
    \/ MainReadEntity
    \/ MainConsume
    \/ EndOfInputInside
    \/ SkipWhitespace
    \/ ReadTagSlash
    \/ ReadTagClosingName
    \/ TagNameChar
    \/ TagNameBadChar
    \/ TagNameEnd
    \/ TagEnd
    \/ TagSelfClose
    \/ AttributesNext
    \/ AttributeNameChar
    \/ AttributeNameBadChar
    \/ AttributeNameEnd
    \/ AttributeEquals
    \/ AttributeQuote
    \/ AttributeValueEnd
    \/ AttributeValueForbidden
    \/ AttributeValueEntity
    \/ AttributeValueChar
    \/ EntityChar
    \/ IsHtmlBleached

Spec == Init /\ [][Next]_vars

(***************************************************************************)
(* Sources nested as deep as the cap of check(), for the depth claims.     *)
(***************************************************************************)
Repeat(s, n) == [ i \in 1..(n * Len(s)) |-> s[((i - 1) % Len(s)) + 1] ]

\* n times '<p>', then n times '</p>'.
Nested(n) == Repeat(<< "<", "p", ">" >>, n) \o Repeat(<< "<", "/", "p", ">" >>, n)

\* One element below the cap, and at the cap.
DeepSources == { Nested(MaxStackDepth - 1), Nested(MaxStackDepth) }

\* The scan of a deep source from the construction of the Checker.
DeepConstructed ==
    /\ source \in DeepSources
    /\ tags = TestConfig.tags
    /\ attributes = TestConfig.attributes
    /\ Constructed

\* The elements open two below the cap.
NearCapDepth == MaxStackDepth - 2

\* The state that scan is in at the top of the main loop when NearCapDepth
\* times '<p>' have been read.  The scan from DeepConstructed passes through
\* this state (NearCapOnTheWay), so starting from it as well adds no state:
\* it only makes the behaviours that reach the cap short.
NearCap ==
    /\ source \in DeepSources
    /\ tags = TestConfig.tags
    /\ attributes = TestConfig.attributes
    /\ position = 3 * NearCapDepth
    /\ line = 1
    /\ line_position = 3 * NearCapDepth + 1
    /\ element_stack = [ i \in 1..NearCapDepth |-> <<"p">> ]
    /\ pc = "main"
    /\ closing = FALSE
    /\ tag_name = <<"p">>
    /\ attribute_name = <<>>
    /\ quote = ""
    /\ entity = <<>>
    /\ caller = "main"
    /\ what = "open"
    /\ entity_value = ""
    /\ exception = "None"
    /\ error = NoError
    /\ result = "pending"
    /\ tags_read = { <<"p">> }
    /\ attributes_read = {}

\* The only state of a deep source at that position and the top of the
\* main loop is NearCap, and the scan does not end before it.
NearCapOnTheWay ==
    source \in DeepSources =>
        /\ position = 3 * NearCapDepth /\ pc = "main" => NearCap
        /\ pc \in { "returned", "raised", "exit" } => position > 3 * NearCapDepth

DeepInit ==
    \/ Init
    \/ DeepConstructed
    \/ NearCap

SpecDeep == DeepInit /\ [][Next]_vars

\* The same sources, every scan from the construction of the Checker.
SpecDeepConstructed == (Init \/ DeepConstructed) /\ [][Next]_vars

(***************************************************************************)
(* Properties.                                                             *)
(***************************************************************************)
\* check() returned without raising.
Succeeded == pc = "returned" \/ (pc = "exit" /\ exception = "None")

\* check() raised UnsafeInput with this message format.
Failed(format) ==
    /\ exception = "UnsafeInput"
    /\ error.message # <<>>
    /\ error.message[1] = format

\* The step in which read_tag returns: the '>' of a tag is consumed.
TagReturns ==
    /\ pc \in { "tag_end", "tag_slash" }
    /\ ~AtEnd
    /\ peek_char = ">"

\* What read_tag returns in that step.
Returned == IF pc = "tag_slash" THEN "selfclose" ELSE IF closing THEN "close" ELSE "open"

\* line and column as counted from the source: one more than the newlines
\* before index; index less the index of the last newline before it (-1 if none).
NewlinesBefore(index) == { i \in 0..(index - 1) : source[i + 1] = "\n" }

LastNewlineBefore(index) ==
    IF NewlinesBefore(index) = {}
    THEN -1
    ELSE CHOOSE i \in NewlinesBefore(index) : \A j \in NewlinesBefore(index) : j <= i

PositionAccurate(index, l, c) ==
    /\ index \in 0..Len(source)
    /\ l = 1 + Cardinality(NewlinesBefore(index))
    /\ c = index - LastNewlineBefore(index)

\* C1: whenever check_html returns without raising, the cursor is at the end
\* of the source, the element stack is empty, and every tag name read was in
\* the tag whitelist and every attribute name read was in the whitelist of its tag.
C1_SuccessIsWellFormed ==
    Succeeded =>
        /\ position = Len(source)
        /\ element_stack = <<>>
        /\ \A t \in tags_read : t \in tags
        /\ \A ta \in attributes_read :
             /\ ta[1] \in DOMAIN attributes
             /\ ta[2] \in attributes[ta[1]]

\* C1's case: a successful check that read nested tags and two attributes.
C1_Witness ==
    /\ pc = "returned"
    /\ Cardinality(tags_read) >= 2
    /\ Cardinality(attributes_read) >= 2

\* C2: the element stack changes only when read_tag returns: 'open' of a
\* non-void tag pushes that name, 'close' pops the top and only when the
\* stack is non-empty and its top is the closing tag's name; every other
\* step leaves the stack as it is.
C2_StackChangedOnlyByTags ==
    [][ IF TagReturns /\ Returned = "open" /\ tag_name \notin VOID_ELEMENTS
        THEN element_stack' = Append(element_stack, tag_name)
        ELSE IF /\ TagReturns /\ Returned = "close"
                /\ element_stack # <<>>
                /\ Last(element_stack) = tag_name
             THEN element_stack' = Front(element_stack)
             ELSE element_stack' = element_stack ]_vars

\* C2's case: an inner element was closed and popped, the outer one is still open.
C2_Witness ==
    /\ pc = "main"
    /\ what = "close"
    /\ Len(element_stack) = 1
    /\ element_stack[1] # tag_name

\* A closing tag that does not match the top of a non-empty stack is returned.
MismatchedClose ==
    /\ TagReturns
    /\ Returned = "close"
    /\ element_stack # <<>>
    /\ Last(element_stack) # tag_name

\* C3, as claimed: a closing tag that does not match the top of a non-empty
\* stack fails with 'Closing tag for wrong element' naming the element on top.
C3_NamesElementOnTop ==
    [][ MismatchedClose =>
          /\ exception' = "UnsafeInput"
          /\ error'.message =
               << "Closing tag for wrong element %r", Last(element_stack) >> ]_vars

\* C3, amended: a closing tag that does not match the top of a non-empty
\* stack fails with 'Closing tag for wrong element' naming the closing tag
\* itself (lowercased), at the index after its '>', the stack left as it is.
C3_NamesClosingTag ==
    [][ MismatchedClose =>
          /\ exception' = "UnsafeInput"
          /\ error'.message = << "Closing tag for wrong element %r", tag_name >>
          /\ error'.index = position + 1
          /\ element_stack' = element_stack ]_vars

\* C3's case: '<p><a></p>' failed, 'a' on top of 'p'.
C3_Witness ==
    /\ Failed("Closing tag for wrong element %r")
    /\ element_stack = << <<"p">>, <<"a">> >>
    /\ error.message[2] = <<"p">>
    /\ error.index = 10

\* C4: in every state, and in every UnsafeInput raised, line is one more
\* than the newlines in source[0:index] and line_position is index less the
\* index of the last newline before index (-1 if there is none).
C4_PositionAccurate ==
    /\ PositionAccurate(position, line, line_position)
    /\ exception = "UnsafeInput" =>
         PositionAccurate(error.index, error.line, error.line_position)

\* C4's case: a failure on the second line, in a tag, after a newline was
\* consumed at the top level ('<p>\n<a/>\n</p>': index 8, line 2, column 5).
C4_Witness ==
    /\ exception = "UnsafeInput"
    /\ error.index = 8
    /\ error.line = 2
    /\ error.line_position = 5
    /\ pc = "raised"

\* '#' followed by one or more decimal digits.
IsDecimalReference(e) ==
    /\ Len(e) >= 2
    /\ e[1] = "#"
    /\ \A i \in 2..Len(e) : e[i] \in Digits

\* The step in which read_entity consumes the ';' that ends the entity.
EntityEnds ==
    /\ pc = "read_entity"
    /\ ~AtEnd
    /\ peek_char = ";"

\* C5: a numeric character reference, '&#' with one or more decimal digits
\* and ';', in text or in an attribute value, is accepted: read_entity ends
\* without any failure and the scan goes on after the ';' in the loop it left.
C5_NumericReferenceAccepted ==
    [][ EntityEnds /\ IsDecimalReference(entity) =>
          /\ exception' = "None"
          /\ pc' = caller
          /\ position' = position + 1 ]_vars

\* C6: is_html_bleached returns True exactly when check_html succeeds and
\* False otherwise, and never raises to its caller.
C6_BooleanNeverRaises ==
    pc = "exit" =>
        /\ result \in { "True", "False" }
        /\ result = "True" <=> exception = "None"

\* The input is exhausted at the top of the main loop, elements still open.
ExhaustedWithOpenElements ==
    /\ pc = "main"
    /\ AtEnd
    /\ element_stack # <<>>

\* C7: when the input is exhausted at the top of the main loop with a
\* non-empty element stack, validation fails with 'Missing closing tag'
\* naming the top of the stack, at index len(source).
C7_MissingClosingTagNamesInnermost ==
    [][ ExhaustedWithOpenElements =>
          /\ exception' = "UnsafeInput"
          /\ error'.message =
               << "Missing closing tag for element %r", Last(element_stack) >>
          /\ error'.index = Len(source)
          /\ element_stack' = element_stack ]_vars

\* C7's case: two different elements open at the end, the inner one named.
C7_Witness ==
    /\ Failed("Missing closing tag for element %r")
    /\ Len(element_stack) = 2
    /\ element_stack[1] # element_stack[2]
    /\ error.message[2] = element_stack[2]
    /\ error.index = Len(source)

\* Inside read_tag, read_attributes or read_entity.
InsideRoutine == pc \notin { "main", "returned", "raised", "exit" }

\* C8: EndOfInput never leaves check(): the input ending inside a tag, an
\* attribute or an entity fails with UnsafeInput 'Unexpected end of input'
\* at index len(source); read_tag returns to the main loop only on a '>' it
\* consumed; the input ending at the top of the main loop with an empty
\* stack is success.
C8_EndOfInputNeverEscapes ==
    /\ [](exception \in { "None", "UnsafeInput", "KeyError" })
    /\ [][ /\ InsideRoutine /\ AtEnd =>
                /\ exception' = "UnsafeInput"
                /\ error'.message = << "Unexpected end of input" >>
                /\ error'.index = Len(source)
           /\ pc \in { "tag_end", "tag_slash" } /\ pc' = "main" =>
                /\ position' = position + 1
                /\ source[position'] = ">"
           /\ pc = "main" /\ AtEnd /\ element_stack = <<>> =>
                /\ exception' = "None"
                /\ pc' = "returned" ]_vars

\* C8's case: the input ended inside an entity inside an attribute value.
C8_Witness ==
    /\ Failed("Unexpected end of input")
    /\ error.index = Len(source)
    /\ caller = "attribute_value"
    /\ source[Len(source)] # ";"
    /\ Len(entity) >= 1
    /\ \E i \in 1..Len(source) :
         /\ source[i] = "&"
         /\ SubSeq(source, i + 1, Len(source)) = entity

SelfClosedNonVoid ==
    /\ TagReturns
    /\ Returned = "selfclose"
    /\ tag_name \notin VOID_ELEMENTS

\* C10: a self-closing tag '<x/>' whose name is whitelisted and not a void
\* element fails with 'Self-closing tag for non-void element' naming x, at
\* the index right after the tag's '>' with the line and column of that
\* index, and x is not pushed.
C10_SelfClosingNonVoidFails ==
    [][ SelfClosedNonVoid =>
          /\ tag_name \in tags
          /\ exception' = "UnsafeInput"
          /\ error'.message =
               << "Self-closing tag for non-void element %r", tag_name >>
          /\ error'.index = position + 1
          /\ source[error'.index] = ">"
          /\ PositionAccurate(error'.index, error'.line, error'.line_position)
          /\ element_stack' = element_stack ]_vars

\* C10's case: '<p>\n<a/>\n</p>' failed on '<a/>', at index 8, line 2, column 5.
C10_Witness ==
    /\ Failed("Self-closing tag for non-void element %r")
    /\ error.message[2] = <<"a">>
    /\ error.index = 8
    /\ error.line = 2
    /\ error.line_position = 5
    /\ element_stack = << <<"p">> >>

\* An opening tag of a non-void element is returned.
NonVoidOpen ==
    /\ TagReturns
    /\ Returned = "open"
    /\ tag_name \notin VOID_ELEMENTS

\* C11: with the cap N = 1000, the opening tag that makes N non-void
\* elements open fails with 'Element stack too deep', whatever follows it
\* in the input; an opening tag that leaves at most N - 1 = 999 open is not
\* rejected for depth; in every state the scan goes on from, the stack
\* holds at most 999 elements.
C11_DepthCap ==
    /\ [](pc \notin { "raised", "exit" } => Len(element_stack) <= 999)
    /\ [](Failed("Element stack too deep") => Len(element_stack) = 1000)
    /\ [][ NonVoidOpen =>
             IF Len(element_stack) + 1 >= 1000
             THEN /\ exception' = "UnsafeInput"
                  /\ error'.message = << "Element stack too deep" >>
                  /\ error'.index = position + 1
             ELSE /\ exception' = "None"
                  /\ pc' = "main"
                  /\ Len(element_stack') = Len(element_stack) + 1 ]_vars

\* C11's case: the 1000th '<p>' failed, with every closing tag still ahead.
C11_Witness ==
    /\ Failed("Element stack too deep")
    /\ Len(element_stack) = 1000
    /\ error.index = 3000
    /\ Len(source) = 7000

\* The step in which the attribute name loop breaks: the character that
\* ends the name is peeked.
AttributeNameBreaks ==
    /\ pc = "attribute_name"
    /\ ~AtEnd
    /\ peek_char \in WHITESPACE \cup { "/", ">", "=" }

\* The attribute map permits attribute a in tag t.
Permitted(t, a) == t \in DOMAIN attributes /\ a \in attributes[t]

\* C12: in an opening tag, an attribute whose lowercased name is not in the
\* whitelist of the tag (a tag without an entry in the map has none) fails
\* with 'Forbidden attribute' naming the attribute and the tag, at the index
\* of the character that ended the name, which is not consumed.
C12_ForbiddenAttribute ==
    /\ [](pc \in { "read_attributes", "attribute_name", "attribute_equals",
                   "attribute_quote", "attribute_value" } => ~closing)
    /\ [][ AttributeNameBreaks /\ ~Permitted(tag_name, Lower(attribute_name)) =>
             /\ exception' = "UnsafeInput"
             /\ error'.message = << "Forbidden attribute %r in tag %r",
                                    Lower(attribute_name), tag_name >>
             /\ error'.index = position
             /\ position' = position ]_vars

\* C12's case: '<p style="color: red;">Hello</p>', 'p' without an entry in
\* the map: the failure is at the '=' after 'style', index 8.
C12_Witness ==
    /\ Failed("Forbidden attribute %r in tag %r")
    /\ error.message[2] = << "s", "t", "y", "l", "e" >>
    /\ error.message[3] = << "p" >>
    /\ << "p" >> \notin DOMAIN attributes
    /\ error.index = 8
    /\ source[error.index + 1] = "="

Quotes == { "\"", "'" }

\* C13: after an attribute name and optional whitespace the next
\* character must be '=', else 'Unexpected character' naming it, at the
\* index after it; after '=' and optional whitespace the next must be a
\* quote, else 'Missing quote for attribute value'.  An attribute is left
\* only through '=', an opening quote and the closing quote of its value.
C13_AttributeNeedsQuotedValue ==
    [][ /\ pc = "attribute_equals" /\ ~AtEnd /\ peek_char \notin WHITESPACE =>
             IF peek_char = "="
             THEN exception' = "None" /\ pc' = "attribute_quote"
             ELSE /\ exception' = "UnsafeInput"
                  /\ error'.message =
                       << "Unexpected character %r in attribute", peek_char >>
                  /\ error'.index = position + 1
        /\ pc = "attribute_quote" /\ ~AtEnd /\ peek_char \notin WHITESPACE =>
             IF peek_char \in Quotes
             THEN exception' = "None" /\ pc' = "attribute_value" /\ quote' = peek_char
             ELSE /\ exception' = "UnsafeInput"
                  /\ error'.message = << "Missing quote for attribute value" >>
                  /\ error'.index = position + 1
        /\ pc = "attribute_name" /\ pc' # pc /\ exception' = "None" =>
             pc' = "attribute_equals"
        /\ pc = "attribute_equals" /\ pc' # pc /\ exception' = "None" =>
             pc' = "attribute_quote"
        /\ pc = "attribute_quote" /\ pc' # pc /\ exception' = "None" =>
             pc' = "attribute_value"
        /\ pc = "attribute_value" /\ pc' # pc /\ exception' = "None" =>
             \/ pc' = "read_entity"
             \/ pc' = "read_attributes" /\ source[position'] = quote /\ quote \in Quotes
      ]_vars

\* C13's case: '<a href>hello</a>', 'href' whitelisted for 'a': the '>'
\* at index 7 is named, the failure is at index 8.
C13_Witness ==
    /\ Failed("Unexpected character %r in attribute")
    /\ error.message[2] = ">"
    /\ error.index = 8
    /\ source[error.index] = ">"
    /\ Permitted(tag_name, attribute_name)

\* The step in which the tag name loop breaks.
TagNameBreaks ==
    /\ pc = "tag_name"
    /\ ~AtEnd
    /\ peek_char \in WHITESPACE \cup { "/", ">" }

\* Some configured tag name is name, letter case apart.
TagConfigured(name) == \E t \in tags : Lower(t) = Lower(name)

\* Some attribute name configured for the tag is name, letter case apart.
AttributeConfigured(tag, name) ==
    \E t \in DOMAIN attributes :
        /\ Lower(t) = Lower(tag)
        /\ \E a \in attributes[t] : Lower(a) = Lower(name)

\* C14: a tag, or an attribute, of the input is permitted iff its lowercase
\* form is the lowercase form of a configured tag name, or of an attribute
\* name configured for the tag, whatever the letter case on either side.
C14_CaseInsensitiveWhitelist ==
    [][ /\ TagNameBreaks =>
             (exception' = "None" <=> TagConfigured(tag_name))
        /\ AttributeNameBreaks =>
             (exception' = "None" <=> AttributeConfigured(tag_name, attribute_name))
      ]_vars

\* C15: the whitelist test is the same for opening and closing tags and
\* comes first: a tag whose lowercased name (the empty name too) is not
\* whitelisted fails with the forbidden-tag message at the index of the
\* character that ended the name, before any attribute is read and before
\* the element stack is looked at; 'wrong element' never names such a tag.
C15_WhitelistComesFirst ==
    /\ [](pc \in { "read_attributes", "attribute_name", "attribute_equals",
                   "attribute_quote", "attribute_value", "tag_end", "tag_slash" }
            => tag_name \in tags)
    /\ [](Failed("Closing tag for wrong element %r") => error.message[2] \in tags)
    /\ [][ TagNameBreaks /\ Lower(tag_name) \notin tags =>
             /\ exception' = "UnsafeInput"
             /\ error'.message =
                  << "Found forbidden opening tag %r", Lower(tag_name) >>
             /\ error'.index = position
             /\ position' = position
             /\ element_stack' = element_stack
             /\ what' = what
             /\ attributes_read' = attributes_read ]_vars

\* C15's case: a closing tag that is not whitelisted, inside an open
\* element it does not match: the forbidden tag is reported.
C15_Witness ==
    /\ Failed("Found forbidden opening tag %r")
    /\ closing
    /\ element_stack # <<>>
    /\ error.message[2] # <<>>
    /\ error.message[2] \notin tags
    /\ source[error.index + 1] = ">"

\* C16: a closing tag that read_tag returns (its name whitelisted, its '>'
\* consumed) and that names a void element is never accepted: whatever is
\* open, it fails with 'Closing tag for wrong element'; so does any closing
\* tag returned while the stack is empty; the failure is at the index after
\* the '>'.
C16_VoidOrUnopenedCloseFails ==
    /\ [](pc = "main" /\ what = "close" => tag_name \notin VOID_ELEMENTS)
    /\ [][ /\ TagReturns
           /\ Returned = "close"
           /\ tag_name \in VOID_ELEMENTS \/ element_stack = <<>>
           => /\ exception' = "UnsafeInput"
              /\ error'.message = << "Closing tag for wrong element %r", tag_name >>
              /\ error'.index = position + 1
              /\ source[error'.index] = ">"
              /\ element_stack' = element_stack ]_vars

\* C16's case: '</br>' inside an open 'p' failed.
C16_Witness ==
    /\ Failed("Closing tag for wrong element %r")
    /\ error.message[2] = << "b", "r" >>
    /\ element_stack = << <<"p">> >>
    /\ source[error.index] = ">"

\* C17: an attribute value ends only at the quote character that opened
\* it, which is consumed and gives control back to the attribute loop; in
\* the value '<' and '>' fail with 'Forbidden character in attribute value',
\* '&' enters read_entity, which comes back into the value, and every other
\* character (the other quote too) is consumed as part of the value; the
\* attribute loop is left only in front of '>' or '/'.
C17_ValueEndsAtItsQuote ==
    /\ [](pc = "attribute_value" \/ (pc = "read_entity" /\ caller = "attribute_value")
            => quote \in Quotes)
    /\ [][ pc = "attribute_value" /\ ~AtEnd =>
             /\ quote' = quote
             /\ CASE peek_char = quote ->
                       /\ exception' = "None"
                       /\ pc' = "read_attributes"
                       /\ position' = position + 1
                  [] peek_char \in { "<", ">" } ->
                       /\ exception' = "UnsafeInput"
                       /\ error'.message = << "Forbidden character in attribute value" >>
                       /\ error'.index = position
                  [] peek_char = "&" ->
                       /\ pc' = "read_entity"
                       /\ caller' = "attribute_value"
                       /\ entity' = <<>>
                       /\ position' = position + 1
                  [] OTHER ->
                       /\ exception' = "None"
                       /\ pc' = "attribute_value"
                       /\ position' = position + 1 ]_vars
    /\ [][ pc = "read_entity" /\ caller = "attribute_value" =>
             /\ quote' = quote
             /\ pc' \in { "read_entity", "attribute_value", "raised" } ]_vars
    /\ [][ pc = "read_attributes" /\ pc' \notin { "read_attributes", "raised" } =>
             IF peek_char \in { ">", "/" }
             THEN pc' = "tag_end" /\ position' = position
             ELSE pc' = "attribute_name" ]_vars

\* C17's case: in '<a href="'"' the value opened by '"' went over the "'"
\* and ended at the next '"'; the attribute loop has control again.
C17_Witness ==
    /\ pc = "read_attributes"
    /\ quote = "\""
    /\ position >= 3
    /\ source[position] = "\""
    /\ source[position - 1] = "'"
    /\ source[position - 2] = "\""

\* The named entities and their characters, as the specification lists them.
NamedEntityCharacter(name) ==
    CASE name = << "n", "b", "s", "p" >> -> " "
      [] name = << "q", "u", "o", "t" >> -> "\""
      [] name = << "a", "m", "p" >>      -> "&"
      [] name = << "a", "p", "o", "s" >> -> "'"
      [] name = << "l", "t" >>           -> "<"
      [] name = << "g", "t" >>           -> ">"
      [] OTHER                           -> ""

\* The characters read so far do not make a numeric reference.
NamedEntity == entity = <<>> \/ entity[1] # "#"

\* C18: a named reference '&X;' is accepted iff lowercase(X) is one of nbsp,
\* quot, amp, apos, lt, gt (X then has at most 10 characters), and
\* read_entity then returns the mapped character; any other X, the empty
\* one too, fails with 'Unknown HTML entity'; a 10th character of X passes
\* the length check, and an 11th character that is not ';' fails with
\* 'Entity too long'.
C18_NamedEntities ==
    /\ [](Len(entity) <= MaxEntityLen)
    /\ [][ EntityEnds /\ NamedEntity =>
             IF NamedEntityCharacter(Lower(entity)) # ""
             THEN /\ exception' = "None"
                  /\ pc' = caller
                  /\ entity_value' = NamedEntityCharacter(Lower(entity))
                  /\ position' = position + 1
             ELSE /\ exception' = "UnsafeInput"
                  /\ error'.message = << "Unknown HTML entity %r", Lower(entity) >>
                  /\ UNCHANGED entity_value ]_vars
    /\ [][ pc = "read_entity" /\ ~AtEnd /\ peek_char # ";" =>
             IF Len(entity) < MaxEntityLen
             THEN /\ exception' = "None"
                  /\ pc' = "read_entity"
                  /\ entity' = Append(entity, peek_char)
             ELSE /\ exception' = "UnsafeInput"
                  /\ error'.message = << "Entity too long" >>
                  /\ error'.index = position + 1 ]_vars

\* C18's case: '&AMp;' was read and gave '&'.
C18_Witness ==
    /\ pc = "main"
    /\ exception = "None"
    /\ position >= 5
    /\ source[position] = ";"
    /\ source[position - 3] = "A"
    /\ source[position - 2] = "M"
    /\ source[position - 4] = "&"
    /\ entity = << "a", "m", "p" >>
    /\ entity_value = "&"

\* How far a position of the code is from the next consume_char, failure or
\* return: 0 at the end, and larger the more tests come before.
Rank(p) ==
    CASE p = "exit" -> 0
      [] p \in { "returned", "raised" } -> 1
      [] p = "attribute_name" -> 3
      [] p = "read_attributes" -> 4
      [] p = "tag_name" -> 5
      [] p \in { "read_tag", "read_tag_closing" } -> 6
      [] p = "main" -> 7
      [] OTHER -> 2

\* A natural number that every step of a scan makes smaller.
Measure == 8 * (Len(source) - position) + Rank(pc)

\* The heads of the main, attribute, attribute-value and entity loops.
LoopHeads == { "main", "read_attributes", "attribute_value", "read_entity" }

\* The step that enters the attribute loop from the tag name.
EntersAttributeLoop == pc = "tag_name" /\ pc' = "read_attributes"

\* C19: every validation terminates by one left-to-right scan: the index
\* never decreases and moves one character at a time, 0 <= index <=
\* len(source) always, every step that comes round to the head of the main,
\* attribute, attribute-value or entity loop has consumed a character (a
\* step that does not fails or leaves the loop), every step brings the end
\* nearer by a measure that len(source) consumptions exhaust, and a scan
\* stops only once is_html_bleached has its result.
C19_Terminates ==
    /\ [](0 <= position /\ position <= Len(source))
    /\ [](pc = "exit" \/ ENABLED <<Next>>_vars)
    /\ [][position' = position \/ position' = position + 1]_vars
    /\ [][pc' \in LoopHeads /\ ~EntersAttributeLoop => position' = position + 1]_vars
    /\ [][Measure' < Measure /\ Measure' >= 0]_vars

\* C19's case: '<p><a href="somewhere" title="Click!">Hello</a></p>' of
\* tests.py went through the main, attribute and attribute-value loops and
\* ended in success with every character consumed once.
C19_Witness ==
    /\ pc = "exit"
    /\ result = "True"
    /\ Len(source) >= 40
    /\ position = Len(source)
    /\ << << "a" >>, << "t", "i", "t", "l", "e" >> >> \in attributes_read
    /\ Measure = 0

\* The failures raised on a character that peek_char returned.
PeekedFailures ==
    { "Unexpected '>' character", "Unexpected character in tag name",
      "Found forbidden opening tag %r", "Unexpected character in attribute",
      "Forbidden attribute %r in tag %r",
      "Forbidden character in attribute value" }

\* The failures raised on a character that consume_char returned.
ConsumedFailures ==
    { "Closing tag for wrong element %r", "Element stack too deep",
      "Self-closing tag for non-void element %r",
      "Saw tag with slashes on both sides",
      "Missing tag close after ending slash", "Unexpected character in tag",
      "Unexpected character %r in attribute",
      "Missing quote for attribute value", "Entity too long",
      "Invalid numerical entity", "Unknown HTML entity %r" }

\* The failures raised where the input ends.
EndFailures ==
    { "Unexpected end of input", "Missing closing tag for element %r" }

\* The step in which a failure is raised.
Fails == exception = "None" /\ exception' = "UnsafeInput"

\* C20: a '>' met by the main loop always fails at once with "Unexpected
\* '>' character", at the index of the '>' itself, which is not consumed;
\* a failure on a consumed character is reported at the index just after
\* that character; a failure is reported at the cursor, which stands at or
\* just after the last character read, and nothing is read after it.
C20_FailureIndex ==
    /\ [](exception = "UnsafeInput" =>
            /\ error.index = position
            /\ error.message[1] \in PeekedFailures \cup ConsumedFailures \cup EndFailures)
    /\ [][ pc = "main" /\ ~AtEnd /\ peek_char = ">" =>
             /\ Fails
             /\ error'.message = << "Unexpected '>' character" >>
             /\ error'.index = position
             /\ source[error'.index + 1] = ">"
             /\ position' = position ]_vars
    /\ [][ Fails =>
             CASE error'.message[1] \in ConsumedFailures ->
                    /\ ~AtEnd
                    /\ position' = position + 1
                    /\ error'.index = position + 1
               [] error'.message[1] \in PeekedFailures ->
                    /\ ~AtEnd
                    /\ position' = position
                    /\ error'.index = position
               [] OTHER ->
                    /\ AtEnd
                    /\ position' = position
                    /\ error'.index = Len(source) ]_vars
    /\ [][ exception # "None" => position' = position /\ error' = error ]_vars

\* C20's case: the '>' after '<p>' failed, at its own index, 'p' still open.
C20_Witness ==
    /\ Failed("Unexpected '>' character")
    /\ element_stack = << <<"p">> >>
    /\ error.index = 3
    /\ source[error.index + 1] = ">"

====
